---- MODULE Spec2Model ----
(***************************************************************************)
(* Model of the `terraform generate` command of the Auth0 CLI              *)
(* (internal/cli/terraform.go): fetchImportData aggregates the records of  *)
(* a list of resource fetchers, generateTerraformConfigFiles writes        *)
(* main.tf and auth0_import.tf into the output directory, and              *)
(* generateTerraformCmdRun chains the two and reports success.             *)
(*                                                                         *)
(* File contents are TLA+ strings holding the bytes the code writes.       *)
(* Every filesystem call may fail; its outcome is chosen by the action.    *)
(***************************************************************************)
EXTENDS Integers, Sequences, FiniteSets, TLC

VARIABLES mode, pc, fetchers, idx, importData, invoked, retData, retErr,
          data, genErr, cmdErr, fs, fsBefore, trace, infos, runs

vars == <<mode, pc, fetchers, idx, importData, invoked, retData, retErr,
          data, genErr, cmdErr, fs, fsBefore, trace, infos, runs>>

fetchVars == <<fetchers, idx, importData, invoked, retData, retErr>>

(***************************************************************************)
(* Bounds of the model.                                                    *)
(***************************************************************************)
MaxFetchers == 3

MaxRecs == 2

MaxRuns == 2

(***************************************************************************)
(* Errors.  Nil is Go's nil error.                                         *)
(***************************************************************************)
Nil == "<nil>"

ErrNoImportData == "no import data available"

ENOENT == "no such file or directory"

EEXIST == "file exists"

ENOTDIR == "not a directory"

EACCES == "permission denied"

EIO == "input/output error"

FetchErrors == {"fetch: unauthorized", "fetch: timeout"}

\* os.IsExist as used on the result of os.MkdirAll
IsExistAnyError(err) == err # Nil

IsExist(err) == err = EEXIST

(***************************************************************************)
(* Import records and the outcomes of a fetcher's FetchData.               *)
(***************************************************************************)
Records ==
  { [ImportID |-> "auth0|123", ResourceName |-> "auth0_client.my_app"],
    [ImportID |-> "q\"x",      ResourceName |-> "auth0_client.other"] }

DataLists == UNION { [1..n -> Records] : n \in 0..MaxRecs }

FetchResults ==
  { [data |-> d, err |-> Nil] : d \in DataLists }
    \cup { [data |-> <<>>, err |-> e] : e \in FetchErrors }
    \cup { [data |-> <<r>>, err |-> "fetch: timeout"] : r \in Records }

FetcherLists == UNION { [1..n -> FetchResults] : n \in 0..MaxFetchers }

\* parseResourceFetchers: hard coded to the single client fetcher; api
\* stands for what the tenant's API will answer to that fetcher.
parseResourceFetchers(api) == << api >>

(***************************************************************************)
(* The output directory and the two files.                                 *)
(***************************************************************************)
Absent == [exists |-> FALSE, content |-> ""]

File(c) == [exists |-> TRUE, content |-> c]

\* what sits at the output path: nothing, a directory, a regular file or a
\* symbolic link whose target does not exist
OutKinds == {"missing", "dir", "file", "dangling"}

InitialFS ==
  { f \in [parent : BOOLEAN, out : OutKinds, main : {Absent}, imp : {Absent}] :
      ~f.parent => f.out = "missing" }

\* one filesystem call of the running invocation and its result
Call(op, name, err) == [op |-> op, name |-> name, err |-> err]

(***************************************************************************)
(* os.MkdirAll(outputDIR, 0755): the possible results on filesystem f, as  *)
(* pairs of the returned error and the filesystem left behind.  An         *)
(* existing directory is success without change; a regular file in the     *)
(* way is ENOTDIR; a dangling link in the way is EEXIST (the only result   *)
(* os.IsExist accepts); a missing directory is created after its parent,   *)
(* and either mkdir may be refused.                                        *)
(***************************************************************************)
MkdirAll(f) ==
  CASE f.out = "dir"      -> { [err |-> Nil, fs |-> f] }
    [] f.out = "file"     -> { [err |-> ENOTDIR, fs |-> f] }
    [] f.out = "dangling" -> { [err |-> EEXIST, fs |-> f] }
    [] f.out = "missing"  ->
         { [err |-> Nil, fs |-> [f EXCEPT !.parent = TRUE, !.out = "dir"]],
           [err |-> EACCES, fs |-> f],
           [err |-> EACCES, fs |-> [f EXCEPT !.parent = TRUE]] }

(***************************************************************************)
(* os.Create(path.Join(outputDIR, name)): O_RDWR|O_CREATE|O_TRUNC.  The    *)
(* file is created empty, or truncated when it exists.  It fails with      *)
(* ENOENT when the output path is no directory, and may be refused.        *)
(***************************************************************************)
osCreateNoTruncate(file) == File(file.content)

osCreate(file) == File("")

CreateErrors(f) == IF f.out = "dir" THEN {Nil, EACCES} ELSE {ENOENT}

\* file.WriteString / the template's writes: bytes go to the end of the file
WriteToDropsBytes(file, s) == file

WriteTo(file, s) == File(file.content \o s)

(***************************************************************************)
(* createMainFile: the fixed text of main.tf.                              *)
(***************************************************************************)
mainFileContent ==
  "terraform {\n" \o
  "  required_version = \"~> 1.5.0\"\n" \o
  "  required_providers {\n" \o
  "    auth0 = {\n" \o
  "      source  = \"auth0/auth0\"\n" \o
  "      version = \"1.0.0-beta.1\"\n" \o
  "    }\n" \o
  "  }\n" \o
  "}\n" \o
  "\n" \o
  "provider \"auth0\" {\n" \o
  "  debug = true\n" \o
  "}\n"

\* what a failing WriteString may have written before the error
ShortWrites == {"", "terraform {\n"}

(***************************************************************************)
(* createImportFile: the template of auth0_import.tf as text/template      *)
(* parses it: text nodes verbatim (no trim markers), one range over dot,   *)
(* two field actions.                                                      *)
(***************************************************************************)
Text(s) == [type |-> "text", text |-> s]

Field(n) == [type |-> "field", name |-> n]

Range(l) == [type |-> "range", list |-> l]

fileContentQuotedTo ==
  << Text("# This file is automatically generated via the Auth0 CLI.\n" \o
          "# It can be safely removed after the successful generation\n" \o
          "# of Terraform resource definition files.\n"),
     Range(<< Text("\nimport {\n  id = \""),
              Field("ImportID"),
              Text("\"\n  to = \""),
              Field("ResourceName"),
              Text("\"\n}\n") >>),
     Text("\n") >>

fileContent ==
  << Text("# This file is automatically generated via the Auth0 CLI.\n" \o
          "# It can be safely removed after the successful generation\n" \o
          "# of Terraform resource definition files.\n"),
     Range(<< Text("\nimport {\n  id = \""),
              Field("ImportID"),
              Text("\"\n  to = "),
              Field("ResourceName"),
              Text("\n}\n") >>),
     Text("\n") >>

\* t.Execute(file, data): the sequence of writes made while walking the
\* nodes with dot bound to d.  A field is printed as it is, unescaped.
RECURSIVE Execute(_, _)
Execute(nodes, d) ==
  IF nodes = <<>> THEN <<>>
  ELSE LET n == Head(nodes)
           RECURSIVE Each(_)
           Each(i) == IF i > Len(d) THEN <<>>
                      ELSE Execute(n.list, d[i]) \o Each(i + 1)
           out == CASE n.type = "text"  -> << n.text >>
                    [] n.type = "field" -> << d[n.name] >>
                    [] n.type = "range" -> Each(1)
       IN out \o Execute(Tail(nodes), d)

\* the bytes of a sequence of writes
RECURSIVE Bytes(_)
Bytes(ws) == IF ws = <<>> THEN "" ELSE Head(ws) \o Bytes(Tail(ws))

(***************************************************************************)
(* The messages of the command on success.                                 *)
(***************************************************************************)
SuccessInfos ==
  << "Terraform config files generated successfully.",
     "Follow this " \o
     "[quickstart](https://registry.terraform.io/providers/auth0/auth0/latest/docs/guides/quickstart) " \o
     "to go through setting up an Auth0 application for the provider to authenticate against and manage " \o
     "resources." >>

(***************************************************************************)
(* Initial states.  Init: no invocation yet, any initial filesystem.       *)
(* InitFetch: fetchImportData called on any list of fetchers.              *)
(***************************************************************************)
Init ==
  /\ mode = "none"
  /\ pc = "idle"
  /\ fetchers = <<>>
  /\ idx = 1
  /\ importData = <<>>
  /\ invoked = <<>>
  /\ retData = <<>>
  /\ retErr = Nil
  /\ data = <<>>
  /\ genErr = Nil
  /\ cmdErr = Nil
  /\ fs \in InitialFS
  /\ fsBefore = fs
  /\ trace = <<>>
  /\ infos = <<>>
  /\ runs = 0

InitFetch ==
  /\ mode = "fetch"
  /\ pc = "fetch"
  /\ fetchers \in FetcherLists
  /\ idx = 1
  /\ importData = <<>>
  /\ invoked = <<>>
  /\ retData = <<>>
  /\ retErr = Nil
  /\ data = <<>>
  /\ genErr = Nil
  /\ cmdErr = Nil
  /\ fs = [parent |-> TRUE, out |-> "dir", main |-> Absent, imp |-> Absent]
  /\ fsBefore = fs
  /\ trace = <<>>
  /\ infos = <<>>
  /\ runs = 1

Resting == pc \in {"idle", "done"}

(***************************************************************************)
(* fetchImportData: one iteration of the loop over the fetchers, and the   *)
(* return after the last one.                                              *)
(***************************************************************************)
\* `return nil, err`: the list returned when a fetcher fails, acc collected
nilOnErrorKeepsPartial(acc) == acc

nilOnError(acc) == <<>>

\* `importData = append(importData, data...)`
appendDataPrepends(acc, d) == d \o acc

appendData(acc, d) == acc \o d

\* `return importData, nil`: the error returned after the last fetcher
errAfterLoopRejectsEmpty(acc) == IF acc = <<>> THEN ErrNoImportData ELSE Nil

errAfterLoop(acc) == Nil

fetchImportDataStep ==
  /\ pc = "fetch"
  /\ idx <= Len(fetchers)
  /\ LET r == fetchers[idx] IN
       /\ invoked' = Append(invoked, idx)
       /\ IF r.err # Nil
            THEN /\ retData' = nilOnError(importData)
                 /\ retErr' = r.err
                 /\ pc' = "fetched"
                 /\ UNCHANGED <<importData, idx>>
            ELSE /\ importData' = appendData(importData, r.data)
                 /\ idx' = idx + 1
                 /\ UNCHANGED <<retData, retErr, pc>>
  /\ UNCHANGED <<mode, fetchers, data, genErr, cmdErr, fs, fsBefore, trace,
                 infos, runs>>

fetchImportDataReturn ==
  /\ pc = "fetch"
  /\ idx > Len(fetchers)
  /\ retData' = importData
  /\ retErr' = errAfterLoop(importData)
  /\ pc' = "fetched"
  /\ UNCHANGED <<mode, fetchers, idx, importData, invoked, data, genErr,
                 cmdErr, fs, fsBefore, trace, infos, runs>>

(***************************************************************************)
(* generateTerraformConfigFiles.                                           *)
(***************************************************************************)
\* the check of the list on entry: the error returned at once, or Nil
checkImportDataAcceptsEmpty(d) == Nil

checkImportData(d) == IF Len(d) = 0 THEN ErrNoImportData ELSE Nil

\* a direct call generateTerraformConfigFiles(outputDIR, d)
generateTerraformConfigFiles ==
  /\ Resting
  /\ runs < MaxRuns
  /\ \E d \in DataLists :
       /\ data' = d
       /\ genErr' = checkImportData(d)
       /\ pc' = IF checkImportData(d) # Nil THEN "genret" ELSE "mkdir"
  /\ mode' = "gen"
  /\ fetchers' = <<>>
  /\ idx' = 1
  /\ importData' = <<>>
  /\ invoked' = <<>>
  /\ retData' = <<>>
  /\ retErr' = Nil
  /\ cmdErr' = Nil
  /\ fsBefore' = fs
  /\ trace' = <<>>
  /\ infos' = <<>>
  /\ runs' = runs + 1
  /\ UNCHANGED fs

\* os.MkdirAll and the test of its error
mkdirOutputDIR ==
  /\ pc = "mkdir"
  /\ \E r \in MkdirAll(fs) :
       /\ fs' = r.fs
       /\ trace' = Append(trace, Call("mkdir", "outputDIR", r.err))
       /\ IF r.err # Nil /\ ~IsExist(r.err)
            THEN genErr' = r.err /\ pc' = "genret"
            ELSE genErr' = genErr /\ pc' = "main"
  /\ UNCHANGED <<mode, fetchVars, data, cmdErr, fsBefore, infos, runs>>

\* `if err := createMainFile(outputDIR); err != nil { return err }`
afterMainFileIgnoresError(err) == "import"

afterMainFile(err) == IF err # Nil THEN "genret" ELSE "import"

createMainFile ==
  /\ pc = "main"
  /\ \/ \E e \in CreateErrors(fs) \ {Nil} :
          /\ trace' = Append(trace, Call("create", "main.tf", e))
          /\ genErr' = e
          /\ pc' = afterMainFile(e)
          /\ UNCHANGED fs
     \/ /\ Nil \in CreateErrors(fs)
        /\ \/ /\ fs' = [fs EXCEPT !.main = WriteTo(osCreate(@), mainFileContent)]
              /\ trace' = trace \o << Call("create", "main.tf", Nil),
                                      Call("write", "main.tf", Nil) >>
              /\ genErr' = Nil
              /\ pc' = afterMainFile(Nil)
           \/ \E w \in ShortWrites :
                /\ fs' = [fs EXCEPT !.main = WriteTo(osCreate(@), w)]
                /\ trace' = trace \o << Call("create", "main.tf", Nil),
                                        Call("write", "main.tf", EIO) >>
                /\ genErr' = EIO
                /\ pc' = afterMainFile(EIO)
  /\ UNCHANGED <<mode, fetchVars, data, cmdErr, fsBefore, infos, runs>>

createImportFile ==
  /\ pc = "import"
  /\ \/ \E e \in CreateErrors(fs) \ {Nil} :
          /\ trace' = Append(trace, Call("create", "auth0_import.tf", e))
          /\ genErr' = e
          /\ pc' = "genret"
          /\ UNCHANGED fs
     \/ /\ Nil \in CreateErrors(fs)
        /\ LET ws == Execute(fileContent, data) IN
             \E k \in 0..Len(ws) :
               LET e == IF k = Len(ws) THEN Nil ELSE EIO IN
                 /\ fs' = [fs EXCEPT
                             !.imp = WriteTo(osCreate(@), Bytes(SubSeq(ws, 1, k)))]
                 /\ trace' = trace \o << Call("create", "auth0_import.tf", Nil),
                                         Call("write", "auth0_import.tf", e) >>
                 /\ genErr' = e
                 /\ pc' = "genret"
  /\ UNCHANGED <<mode, fetchVars, data, cmdErr, fsBefore, infos, runs>>

\* the return of a direct call
generateReturn ==
  /\ pc = "genret"
  /\ mode = "gen"
  /\ pc' = "done"
  /\ UNCHANGED <<mode, fetchVars, data, genErr, cmdErr, fs, fsBefore, trace,
                 infos, runs>>

(***************************************************************************)
(* generateTerraformCmdRun: fetch, then generate, then report.             *)
(***************************************************************************)
generateTerraformCmdRun ==
  /\ Resting
  /\ runs < MaxRuns
  /\ \E api \in FetchResults : fetchers' = parseResourceFetchers(api)
  /\ mode' = "cmd"
  /\ pc' = "fetch"
  /\ idx' = 1
  /\ importData' = <<>>
  /\ invoked' = <<>>
  /\ retData' = <<>>
  /\ retErr' = Nil
  /\ data' = <<>>
  /\ genErr' = Nil
  /\ cmdErr' = Nil
  /\ fsBefore' = fs
  /\ trace' = <<>>
  /\ infos' = <<>>
  /\ runs' = runs + 1
  /\ UNCHANGED fs

\* `if err != nil { return err }` after fetchImportData
fetchFailedIgnored(err) == FALSE

fetchFailed(err) == err # Nil

\* after fetchImportData: return its error, or enter the generator
cmdAfterFetch ==
  /\ pc = "fetched"
  /\ mode = "cmd"
  /\ IF fetchFailed(retErr)
       THEN /\ cmdErr' = retErr
            /\ pc' = "done"
            /\ UNCHANGED <<data, genErr>>
       ELSE /\ data' = retData
            /\ genErr' = checkImportData(retData)
            /\ pc' = IF checkImportData(retData) # Nil THEN "genret" ELSE "mkdir"
            /\ UNCHANGED cmdErr
  /\ UNCHANGED <<mode, fetchVars, fs, fsBefore, trace, infos, runs>>

\* after generateTerraformConfigFiles: return its error, or report success
cmdAfterGenerate ==
  /\ pc = "genret"
  /\ mode = "cmd"
  /\ IF genErr # Nil
       THEN cmdErr' = genErr /\ UNCHANGED infos
       ELSE cmdErr' = Nil /\ infos' = SuccessInfos
  /\ pc' = "done"
  /\ UNCHANGED <<mode, fetchVars, data, genErr, fs, fsBefore, trace, runs>>

Next ==
  \/ generateTerraformCmdRun
  \/ fetchImportDataStep
  \/ fetchImportDataReturn
  \/ cmdAfterFetch
  \/ generateTerraformConfigFiles
  \/ mkdirOutputDIR
  \/ createMainFile
  \/ createImportFile
  \/ generateReturn
  \/ cmdAfterGenerate

Spec == Init /\ [][Next]_vars

NextFetch ==
  \/ fetchImportDataStep
  \/ fetchImportDataReturn

SpecFetch == InitFetch /\ [][NextFetch]_vars

(***************************************************************************)
(* Properties of fetchImportData (checked under SpecFetch).                *)
(***************************************************************************)
Failing == { i \in 1..Len(fetchers) : fetchers[i].err # Nil }

FirstFailing == CHOOSE i \in Failing : \A j \in Failing : i <= j

UpTo(n) == [i \in 1..n |-> i]

\* number of records of the fetchers before fetcher i
RECURSIVE Offset(_)
Offset(i) == IF i <= 1 THEN 0 ELSE Offset(i - 1) + Len(fetchers[i - 1].data)

\* C1: when a fetcher fails, no fetcher after the first failing one is ever
\* invoked, and fetchImportData returns the error of the first failing
\* fetcher with an empty list, whatever the earlier fetchers had delivered.
C1_FirstErrorAborts ==
  Failing # {} =>
    /\ \A k \in 1..Len(invoked) : invoked[k] <= FirstFailing
    /\ pc = "fetched" =>
         /\ retErr = fetchers[FirstFailing].err
         /\ retData = <<>>
         /\ invoked = UpTo(FirstFailing)

C1_Witness ==
  /\ pc = "fetched"
  /\ Len(fetchers) = 3
  /\ fetchers[1].err = Nil
  /\ fetchers[1].data # <<>>
  /\ fetchers[2].err # Nil
  /\ fetchers[2].data # <<>>
  /\ fetchers[3].err # Nil
  /\ fetchers[3].err # fetchers[2].err
  /\ retErr = fetchers[2].err
  /\ invoked = <<1, 2>>

\* C2: when every fetcher succeeds, each is invoked exactly once, in list
\* order, and the returned list is the concatenation of their records: the
\* k-th record of fetcher i sits at position Offset(i) + k, and the length is
\* the total number of records.
C2_Concatenation ==
  (Failing = {} /\ pc = "fetched") =>
    /\ retErr = Nil
    /\ invoked = UpTo(Len(fetchers))
    /\ Len(retData) = Offset(Len(fetchers) + 1)
    /\ \A i \in 1..Len(fetchers) :
         \A k \in 1..Len(fetchers[i].data) :
           retData[Offset(i) + k] = fetchers[i].data[k]

C2_Witness ==
  /\ pc = "fetched"
  /\ Failing = {}
  /\ Len(fetchers) = 3
  /\ Len(fetchers[1].data) = 2
  /\ fetchers[1].data[1] # fetchers[1].data[2]
  /\ fetchers[2].data = <<>>
  /\ Len(fetchers[3].data) = 1
  /\ fetchers[3].data[1] = fetchers[1].data[2]
  /\ Len(retData) = 3

(***************************************************************************)
(* Properties of generateTerraformConfigFiles and of the command (checked  *)
(* under Spec).                                                            *)
(***************************************************************************)
\* generateTerraformConfigFiles has been entered by the current invocation
GenEntered ==
  /\ pc \in {"mkdir", "main", "import", "genret", "done"}
  /\ mode = "gen" \/ (mode = "cmd" /\ retErr = Nil)

\* ... and has returned
GenReturned == GenEntered /\ pc \in {"genret", "done"}

NoCallFailed == \A k \in 1..Len(trace) : trace[k].err = Nil

FilesTouched ==
  { trace[k].name : k \in { j \in 1..Len(trace) : trace[j].op # "mkdir" } }

\* the expected text of auth0_import.tf
HeaderComment ==
  "# This file is automatically generated via the Auth0 CLI.\n" \o
  "# It can be safely removed after the successful generation\n" \o
  "# of Terraform resource definition files.\n"

ImportBlock(r) ==
  "\n" \o
  "import {\n" \o
  "  id = \"" \o r.ImportID \o "\"\n" \o
  "  to = " \o r.ResourceName \o "\n" \o
  "}\n"

RECURSIVE Blocks(_, _)
Blocks(d, k) == IF k > Len(d) THEN "" ELSE ImportBlock(d[k]) \o Blocks(d, k + 1)

ImportFileText(d) == HeaderComment \o Blocks(d, 1) \o "\n"

\* C3: called with an empty list, generateTerraformConfigFiles returns the
\* error "no import data available" at once: it makes no filesystem call and
\* the directory and both files are as they were before the call.
C3_EmptyListRejected ==
  (GenEntered /\ Len(data) = 0) =>
    /\ pc \in {"genret", "done"}
    /\ genErr = ErrNoImportData
    /\ trace = <<>>
    /\ fs = fsBefore

C3_Witness ==
  /\ mode = "gen"
  /\ pc = "done"
  /\ data = <<>>
  /\ genErr = ErrNoImportData
  /\ fs.out = "missing"
  /\ ~fs.main.exists
  /\ ~fs.imp.exists

\* C4: once auth0_import.tf has been written without error for a list of
\* N >= 1 records, its bytes are the header comment, then for k = 1..N a
\* blank line and the import block of the k-th record (id quoted, to
\* unquoted), then one final blank line.
C4_ImportFileText ==
  (trace # <<>> /\ trace[Len(trace)] = Call("write", "auth0_import.tf", Nil)) =>
    /\ Len(data) >= 1
    /\ fs.imp = File(ImportFileText(data))

C4_Witness ==
  /\ trace # <<>>
  /\ trace[Len(trace)] = Call("write", "auth0_import.tf", Nil)
  /\ Len(data) = 2
  /\ data[1].ImportID = "auth0|123"
  /\ data[2].ImportID # "auth0|123"
  /\ fs.imp.content =
       "# This file is automatically generated via the Auth0 CLI.\n" \o
       "# It can be safely removed after the successful generation\n" \o
       "# of Terraform resource definition files.\n" \o
       "\nimport {\n  id = \"auth0|123\"\n  to = auth0_client.my_app\n}\n" \o
       "\nimport {\n  id = \"q\"x\"\n  to = auth0_client.other\n}\n" \o
       "\n"

\* C5: a call with a non-empty list in which no filesystem call failed
\* returns nil, has created and written main.tf and auth0_import.tf and no
\* other file, and main.tf holds the fixed text.
C5_TwoFilesWritten ==
  (GenReturned /\ Len(data) >= 1 /\ NoCallFailed) =>
    /\ genErr = Nil
    /\ FilesTouched = {"main.tf", "auth0_import.tf"}
    /\ fs.out = "dir"
    /\ fs.main = File(mainFileContent)
    /\ fs.imp.exists

C5_Witness ==
  /\ GenReturned
  /\ Len(data) >= 1
  /\ NoCallFailed
  /\ genErr = Nil
  /\ fsBefore.out = "dir"
  /\ ~fsBefore.main.exists
  /\ fs.main.exists

\* C6: in a run of the command the generator is entered only after every
\* fetcher has been invoked and has succeeded; when a fetcher fails the
\* command returns the fetcher's error, makes no filesystem call, leaves the
\* filesystem as it was and emits nothing; the success messages are emitted
\* only when mkdir, both creates and both writes have succeeded.
C6_GenerateAfterFetch ==
  /\ (mode = "cmd" /\ pc \in {"mkdir", "main", "import", "genret"}) =>
       /\ retErr = Nil
       /\ Failing = {}
       /\ invoked = UpTo(Len(fetchers))
       /\ data = retData
  /\ (mode = "cmd" /\ Failing # {}) =>
       /\ trace = <<>>
       /\ fs = fsBefore
       /\ infos = <<>>
       /\ pc = "done" => cmdErr = fetchers[FirstFailing].err
  /\ infos # <<>> =>
       /\ infos = SuccessInfos
       /\ mode = "cmd"
       /\ pc = "done"
       /\ cmdErr = Nil
       /\ NoCallFailed
       /\ Len(trace) = 5
       /\ trace[3] = Call("write", "main.tf", Nil)
       /\ trace[5] = Call("write", "auth0_import.tf", Nil)
       /\ fs.main.exists
       /\ fs.imp.exists

C6_Witness ==
  /\ mode = "cmd"
  /\ pc = "done"
  /\ Failing # {}
  /\ cmdErr \in FetchErrors
  /\ fetchers[1].data # <<>>
  /\ runs = 2
  /\ fsBefore.imp.exists
  /\ fs = fsBefore

C8_MainBeforeImport ==
  /\ \A k \in 1..Len(trace) :
       trace[k].name = "auth0_import.tf" =>
         /\ k >= 4
         /\ trace[2] = Call("create", "main.tf", Nil)
         /\ trace[3] = Call("write", "main.tf", Nil)
         /\ fs.main = File(mainFileContent)
  /\ (trace # <<>> /\ trace[Len(trace)].name = "auth0_import.tf"
        /\ trace[Len(trace)].err # Nil) =>
       /\ pc \in {"genret", "done"}
       /\ genErr = trace[Len(trace)].err
       /\ fs.main = File(mainFileContent)

C8_Witness ==
  /\ pc = "done"
  /\ trace # <<>>
  /\ trace[Len(trace)] = Call("write", "auth0_import.tf", EIO)
  /\ genErr = EIO
  /\ ~fsBefore.main.exists
  /\ fs.main = File(mainFileContent)
  /\ fs.imp.exists
  /\ fs.imp.content # ImportFileText(data)

\* C9: in a run of the command whose fetchers all succeed with no record,
\* fetchImportData returns the empty list and nil, and the command then ends
\* with "no import data available": no filesystem call, the filesystem as it
\* was, no message.
C9_EmptyFetchFailsCommand ==
  (/\ mode = "cmd"
   /\ pc # "fetch"
   /\ \A i \in 1..Len(fetchers) :
        fetchers[i].err = Nil /\ fetchers[i].data = <<>>) =>
    /\ retErr = Nil
    /\ retData = <<>>
    /\ pc \in {"fetched", "genret", "done"}
    /\ pc \in {"genret", "done"} => genErr = ErrNoImportData
    /\ pc = "done" => cmdErr = ErrNoImportData
    /\ trace = <<>>
    /\ fs = fsBefore
    /\ infos = <<>>

C9_Witness ==
  /\ mode = "cmd"
  /\ pc = "done"
  /\ Len(fetchers) = 1
  /\ fetchers[1] = [data |-> <<>>, err |-> Nil]
  /\ invoked = <<1>>
  /\ retErr = Nil
  /\ cmdErr = ErrNoImportData
  /\ fs.out = "missing"

\* C10: whenever a generation has returned nil, whatever the two files held
\* before, auth0_import.tf holds exactly what the template yields for the
\* list of this invocation and main.tf holds the fixed text.
C10_FilesRewritten ==
  (GenReturned /\ genErr = Nil /\ Len(data) >= 1) =>
    /\ fs.imp = File(Bytes(Execute(fileContent, data)))
    /\ fs.main = File(mainFileContent)

C10_Witness ==
  /\ GenReturned
  /\ genErr = Nil
  /\ runs >= 2
  /\ Len(data) = 1
  /\ fsBefore.main = File(mainFileContent)
  /\ \E d \in DataLists :
       /\ Len(d) = 2
       /\ fsBefore.imp = File(Bytes(Execute(fileContent, d)))
  /\ Len(fs.imp.content) < Len(fsBefore.imp.content)

====
